---- MODULE Spec2Model ----
(***************************************************************************)
(* ParamEditPlus: the command parser, the unit taxonomy and the parameter  *)
(* mutator of src/ParamEditPlusCommand.py, with the host's parameter store *)
(* (design.userParameters) as the state the handlers act on.               *)
(*                                                                         *)
(* A Python str is a sequence of one-character strings: "w=10mm" is        *)
(* <<"w","=","1","0","m","m">>.  A Python float is [neg, num, den], the    *)
(* decimal num/den with den the least power of ten (10.0 is 10/1, 2.5 is   *)
(* 25/10), neg the sign bit (float("-0") is -0.0).                         *)
(***************************************************************************)
EXTENDS Integers, Sequences, FiniteSets, TLC

VARIABLES
    store,          \* design.userParameters: sequence of [name, unit, expression]
    pre,            \* design.userParameters as it was when the last call began
    call,           \* the operation that ran last
    cmd,            \* the command string the last call was given
    shape,          \* the pieces cmd was typed from (kind "raw": typed freely)
    fields,         \* the per-parameter edit fields the last call was given
    res,            \* what the last _parse_parameter_command returned or raised
    ops,            \* the store operations the last call issued, with the host's answers
    msgs,           \* the message boxes the last call showed, in order
    ret,            \* the route the last call took
    invalid,        \* invalid_expressions of the last process_parameter_field_updates
    seen,           \* the parameters whose field that call looked at, in order
    isValueError,   \* command_input.isValueError of the dialog's command field
    fieldErrors,    \* field.isValueError of each parameter's edit field
    valid,          \* what the last _validate_command_input returned, and why
    isValidResult,  \* args.isValidResult when the last handler returned
    reload,         \* what became of the add-in's reload in the last call
    calls,          \* the methods the last on_execute called, in order
    raised,         \* the exception that left the last call ("" when none)
    hadUnit,        \* the names of the parameters that had a unit at some time
    delTargets,     \* the names that del commands were typed for
    step            \* the number of calls that ran on the store

vars ==
    <<store, pre, call, cmd, shape, fields, res, ops, msgs, ret, invalid, seen,
      isValueError, fieldErrors, valid, isValidResult, reload, calls, raised,
      hadUnit, delTargets, step>>

(***************************************************************************)
(* Characters and Python's str methods                                     *)
(***************************************************************************)

\* str.isdigit() on the characters a command is typed from
Digits == {"0","1","2","3","4","5","6","7","8","9"}

\* str.isalpha() on the characters a command is typed from
Letters ==
    {"a","b","c","d","e","f","g","h","i","j","k","l","m",
     "n","o","p","q","r","s","t","u","v","w","x","y","z",
     "A","B","C","D","E","F","G","H","I","J","K","L","M",
     "N","O","P","Q","R","S","T","U","V","W","X","Y","Z"}

\* the characters str.strip() removes from both ends
Whitespace == {" ", "\t"}

RECURSIVE LStrip(_)
LStrip(s) ==
    IF s # <<>> /\ Head(s) \in Whitespace THEN LStrip(Tail(s)) ELSE s

RECURSIVE RStrip(_)
RStrip(s) ==
    IF s # <<>> /\ s[Len(s)] \in Whitespace
    THEN RStrip(SubSeq(s, 1, Len(s) - 1))
    ELSE s

\* str.strip()
Strip(s) == RStrip(LStrip(s))

\* s[i:] with i a 0-based Python index
From(s, i) == SubSeq(s, i + 1, Len(s))

\* s.startswith(sub)
StartsWith(s, sub) ==
    Len(sub) <= Len(s) /\ SubSeq(s, 1, Len(sub)) = sub

\* s.find(sub): the 0-based index of the first occurrence, -1 if none
Find(s, sub) ==
    LET hits == {i \in 0..(Len(s) - Len(sub)) : SubSeq(s, i + 1, i + Len(sub)) = sub}
    IN  IF hits = {} THEN -1
        ELSE CHOOSE i \in hits : \A j \in hits : i <= j

\* sub in s
Contains(s, sub) == Find(s, sub) >= 0

\* s.split(sep, 1): the text before and after the first sep (sep in s)
SplitFirst(s, sep) ==
    LET i == Find(s, sep)
    IN  <<SubSeq(s, 1, i), From(s, i + Len(sep))>>

\* s.split(sep): the pieces of s between the occurrences of sep
RECURSIVE Split(_, _)
Split(s, sep) ==
    LET i == Find(s, sep)
    IN  IF i < 0 THEN <<s>>
        ELSE <<SubSeq(s, 1, i)>> \o Split(From(s, i + Len(sep)), sep)

\* c.lower()
LowerChar(c) ==
    CASE c = "A" -> "a" [] c = "B" -> "b" [] c = "C" -> "c" [] c = "D" -> "d"
      [] c = "E" -> "e" [] c = "F" -> "f" [] c = "G" -> "g" [] c = "H" -> "h"
      [] c = "I" -> "i" [] c = "J" -> "j" [] c = "K" -> "k" [] c = "L" -> "l"
      [] c = "M" -> "m" [] c = "N" -> "n" [] c = "O" -> "o" [] c = "P" -> "p"
      [] c = "Q" -> "q" [] c = "R" -> "r" [] c = "S" -> "s" [] c = "T" -> "t"
      [] c = "U" -> "u" [] c = "V" -> "v" [] c = "W" -> "w" [] c = "X" -> "x"
      [] c = "Y" -> "y" [] c = "Z" -> "z" [] OTHER -> c

\* s.lower()
Lower(s) == [i \in 1..Len(s) |-> LowerChar(s[i])]

\* s.replace(' ', '')
IsNotSpace(c) == c # " "
RemoveSpaces(s) == SelectSeq(s, IsNotSpace)

(***************************************************************************)
(* Python's float() and str(float)                                         *)
(***************************************************************************)

DigitValue(c) ==
    CASE c = "0" -> 0 [] c = "1" -> 1 [] c = "2" -> 2 [] c = "3" -> 3
      [] c = "4" -> 4 [] c = "5" -> 5 [] c = "6" -> 6 [] c = "7" -> 7
      [] c = "8" -> 8 [] c = "9" -> 9

DigitChar(n) == <<"0","1","2","3","4","5","6","7","8","9">>[n + 1]

RECURSIVE Pow10(_)
Pow10(k) == IF k = 0 THEN 1 ELSE 10 * Pow10(k - 1)

IsDigit(c) == c \in Digits

\* int(s) of a string of digits ('' reads as 0)
RECURSIVE DigitsToNat(_)
DigitsToNat(s) ==
    IF s = <<>> THEN 0
    ELSE 10 * DigitsToNat(SubSeq(s, 1, Len(s) - 1)) + DigitValue(s[Len(s)])

\* the decimal num/den brought to the least power-of-ten denominator
RECURSIVE Normalize(_, _)
Normalize(num, den) ==
    IF den > 1 /\ num % 10 = 0 THEN Normalize(num \div 10, den \div 10)
    ELSE <<num, den>>

\* the float no call returned
NoValue == [neg |-> FALSE, num |-> 0, den |-> 0]

\* mutant: float() never raises
FloatOK_Always(s) == TRUE

\* float(s) accepts s (s holds only digits, '.' and '-'): an optional leading
\* '-', then digits with at most one '.', at least one digit
FloatOK(s) ==
    LET body == IF s # <<>> /\ Head(s) = "-" THEN Tail(s) ELSE s
    IN  /\ \A i \in 1..Len(body) : body[i] # "-"
        /\ Cardinality({i \in 1..Len(body) : body[i] = "."}) <= 1
        /\ \E i \in 1..Len(body) : body[i] \in Digits

\* float(s), for s that float() accepts
Float(s) ==
    LET body == IF s # <<>> /\ Head(s) = "-" THEN Tail(s) ELSE s
        dot  == Find(body, <<".">>)
        k    == IF dot < 0 THEN 0 ELSE Len(body) - dot - 1
        nd   == Normalize(DigitsToNat(SelectSeq(body, IsDigit)), Pow10(k))
    IN  [neg |-> s # <<>> /\ Head(s) = "-", num |-> nd[1], den |-> nd[2]]

\* str(n) of a natural number
RECURSIVE NatStr(_)
NatStr(n) ==
    IF n < 10 THEN <<DigitChar(n)>>
    ELSE NatStr(n \div 10) \o <<DigitChar(n % 10)>>

\* n written with exactly k digits (leading zeros)
RECURSIVE Padded(_, _)
Padded(n, k) ==
    IF k = 0 THEN <<>> ELSE Padded(n \div 10, k - 1) \o <<DigitChar(n % 10)>>

\* the number of decimal digits of den = 10^k, less one: k
RECURSIVE Log10(_)
Log10(den) == IF den <= 1 THEN 0 ELSE 1 + Log10(den \div 10)

\* str(v) of a float: repr's shortest form; below 1e-4 repr switches to the
\* exponent form (1e-05).  (At 1e16 and above it does too: beyond the numbers
\* typed here.)
FloatStr(v) ==
    LET k    == Log10(v.den)
        sign == IF v.neg THEN <<"-">> ELSE <<>>
        dig  == NatStr(v.num)
        e    == k - (Len(dig) - 1)
    IN  IF v.num = 0 THEN sign \o <<"0", ".", "0">>
        ELSE IF v.num * 10000 < v.den
        THEN sign \o <<Head(dig)>>
                  \o (IF Len(dig) > 1 THEN <<".">> \o Tail(dig) ELSE <<>>)
                  \o <<"e", "-">> \o (IF e < 10 THEN <<"0">> ELSE <<>>) \o NatStr(e)
        ELSE sign \o NatStr(v.num \div v.den) \o <<".">>
                  \o (IF k = 0 THEN <<"0">> ELSE Padded(v.num % v.den, k))

(***************************************************************************)
(* The unit taxonomy                                                       *)
(***************************************************************************)

FUSION_UNITS ==
    "LENGTH"               :> {<<"m","m">>, <<"c","m">>, <<"m">>, <<"h","m">>, <<"m","i","c","r","o","n">>, <<"i","n">>, <<"f","t">>, <<"y","d">>, <<"m","i">>, <<"n","a","u","t","i","c","a","l","M","i","l","e">>, <<"m","i","l">>} @@
    "ANGLE"                :> {<<"r","a","d">>, <<"d","e","g">>, <<"g","r","a","d">>} @@
    "CURRENCY"             :> {<<"d","o","l">>} @@
    "CURRENT"              :> {<<"A">>} @@
    "LUMINOSITY"           :> {<<"c","d">>, <<"E","V">>} @@
    "MASS"                 :> {<<"g">>, <<"k","g">>, <<"s","l","u","g">>, <<"l","b","m","a","s","s">>, <<"o","u","n","c","e","m","a","s","s">>, <<"t","o","n","m","a","s","s">>} @@
    "PIECES"               :> {<<"p","c","s">>} @@
    "SUBSTANCE"            :> {<<"m","o","l","e">>} @@
    "TEMPERATURE"          :> {<<"K">>, <<"C">>, <<"F">>, <<"R">>} @@
    "TIME"                 :> {<<"s">>, <<"m","i","n">>, <<"h","r">>} @@
    "SOLID_ANGLE"          :> {<<"s","r">>} @@
    "SPEED"                :> {<<"m","p","s">>, <<"f","p","s">>, <<"m","p","h">>, <<"k","n","o","t","s">>} @@
    "AREA"                 :> {<<"a","c","r","e">>, <<"c","i","r","c","u","l","a","r","_","m","i","l">>} @@
    "VOLUME"               :> {<<"l">>, <<"g","a","l">>, <<"q","t">>, <<"p","t">>, <<"c","u","p">>, <<"f","l","_","o","z">>} @@
    "PRESSURE"             :> {<<"m","P","a">>, <<"P","a">>, <<"M","P","a">>, <<"p","s","i">>, <<"p","s","f">>, <<"k","s","i">>, <<"b","a","r">>, <<"a","t","m">>, <<"i","n","H","2","O">>, <<"f","t","H","2","O">>, <<"m","H","2","O">>, <<"m","m","H","g">>, <<"i","n","H","g">>} @@
    "FORCE"                :> {<<"N">>, <<"d","y","n","e">>, <<"l","b","f","o","r","c","e">>, <<"o","u","n","c","e","f","o","r","c","e">>, <<"t","o","n","f","o","r","c","e">>} @@
    "POWER"                :> {<<"W">>, <<"h","p">>} @@
    "ENERGY"               :> {<<"J">>, <<"e","r","g">>, <<"c","a","l","o","r","i","e">>, <<"B","t","u">>} @@
    "ANGULAR_VELOCITY"     :> {<<"r","p","m">>} @@
    "LUMINOUS_FLUX"        :> {<<"l","m">>} @@
    "ILLUMINANCE"          :> {<<"l","x">>} @@
    "ELECTROMOTIVE_FORCE"  :> {<<"V">>} @@
    "RESISTANCE"           :> {<<"o","h","m">>} @@
    "CHARGE"               :> {<<"c","o","l","u","m","b">>} @@
    "CAPACITANCE"          :> {<<"f","a","r","a","d">>} @@
    "CONDUCTANCE"          :> {<<"S">>, <<"m","h","o">>} @@
    "MAGNETIC_FLUX"        :> {<<"W","b">>, <<"m","a","x","w","e","l","l">>} @@
    "MAGNETIC_FIELD"       :> {<<"T">>, <<"g","a","m","m","a">>, <<"g","a","u","s","s">>} @@
    "INDUCTANCE"           :> {<<"H">>} @@
    "MAGNETIZING_FIELD"    :> {<<"o","e","r","s","t","e","d">>} @@
    "FREQUENCY"            :> {<<"H","z">>} @@
    "VISCOSITY"            :> {<<"p","o","i","s","e">>} @@
    "FLOW_RATE"            :> {<<"C","C","S">>, <<"C","I","S">>, <<"C","F","M">>, <<"C","M","H">>, <<"G","P","H">>, <<"L","P","H">>}

\* the flat set of all valid units
ALL_VALID_UNITS == UNION {FUSION_UNITS[category] : category \in DOMAIN FUSION_UNITS}

(***************************************************************************)
(* The command parser                                                      *)
(***************************************************************************)

\* a ParameterData, as _parse_parameter_command returns it
ParameterData(name, value, unit_type, comment) ==
    [ok |-> TRUE, exc |-> "", msg |-> "",
     name |-> name, value |-> value, unit_type |-> unit_type, comment |-> comment]

\* raise ValueError(msg): no ParameterData is returned
RaiseValueError(msg) ==
    [ok |-> FALSE, exc |-> "ValueError", msg |-> msg,
     name |-> <<>>, value |-> NoValue, unit_type |-> <<>>, comment |-> <<>>]

\* mutant: the '.' is not kept in the numeric part
IsNumericChar_NoDot(c) == c \in Digits \/ c = "-"

\* c.isdigit() or c in '.-'
IsNumericChar(c) == c \in Digits \/ c \in {".", "-"}

\* c.isalpha()
IsAlpha(c) == c \in Letters

\* mutant: the numeric part is the number the value begins with
NumericPart_Leading(value_parts) ==
    SubSeq(value_parts, 1,
           CHOOSE n \in 0..Len(value_parts) :
              /\ \A i \in 1..n : IsNumericChar(value_parts[i])
              /\ n < Len(value_parts) => ~IsNumericChar(value_parts[n + 1]))

\* numeric_part = ''.join(c for c in value_parts if c.isdigit() or c in '.-')
NumericPart(value_parts) == SelectSeq(value_parts, IsNumericChar)

\* unit_part = ''.join(c for c in value_parts if c.isalpha())
UnitPart(value_parts) == SelectSeq(value_parts, IsAlpha)

\* mutant: every unit is taken for valid
IsValidUnit_Any(unit_part) == TRUE

\* unit_part in ALL_VALID_UNITS
IsValidUnit(unit_part) == unit_part \in ALL_VALID_UNITS

\* _parse_parameter_command(command_value): the ParameterData, or the ValueError
parse_parameter_command(command_value) ==
    IF ~Contains(command_value, <<"=">>)
    THEN RaiseValueError("Invalid parameter format. Expected 'name=value'")
    ELSE
    LET parts        == SplitFirst(command_value, <<"=">>)
        param_name   == Strip(parts[1])
        param_value  == Strip(parts[2])
        value_parts  == RemoveSpaces(param_value)
        numeric_part == NumericPart(value_parts)
        unit_part    == UnitPart(value_parts)
    IN  IF param_name = <<>> \/ param_value = <<>>
        THEN RaiseValueError("Parameter name and value cannot be empty")
        ELSE IF numeric_part = <<>>
        THEN RaiseValueError("Parameter must have a numeric value")
        ELSE IF ~FloatOK(numeric_part)
        THEN RaiseValueError("Invalid numeric value")
        ELSE IF unit_part = <<>>
        THEN ParameterData(param_name, Float(numeric_part), <<>>, <<>>)
        ELSE IF ~IsValidUnit(unit_part)
        THEN RaiseValueError("Invalid unit type")
        ELSE ParameterData(param_name, Float(numeric_part), unit_part, <<>>)

\* no call of _parse_parameter_command was made
NoResult == [ok |-> FALSE, exc |-> "", msg |-> "",
             name |-> <<>>, value |-> NoValue, unit_type |-> <<>>, comment |-> <<>>]

(***************************************************************************)
(* The host's parameter store (design.userParameters)                      *)
(*                                                                         *)
(* A handler's run is a record: the store as it stands, the operations     *)
(* issued so far with the host's answers, the message boxes shown, and the *)
(* exception in flight (exc = "" when none).  The host may refuse or fail  *)
(* any operation, so an operation yields the set of runs it can lead to.   *)
(***************************************************************************)

\* a user parameter of the host: its name, its unit, its expression
UserParameter(name, unit, expression) ==
    [name |-> name, unit |-> unit, expression |-> expression]

\* design.userParameters.itemByName(name): the place of the parameter in the
\* store, 0 for None
ItemByName(st, name) ==
    IF \E i \in 1..Len(st) : st[i].name = name
    THEN CHOOSE i \in 1..Len(st) : st[i].name = name
    ELSE 0

\* the store without its i-th parameter
Remove(st, i) == SubSeq(st, 1, i - 1) \o SubSeq(st, i + 1, Len(st))

\* the run of a handler that starts on store st
Run(st) ==
    [store |-> st, ops |-> <<>>, msgs |-> <<>>, exc |-> "", why |-> "",
     res |-> NoResult, route |-> "none", invalid |-> <<>>, seen |-> <<>>,
     isValidResult |-> TRUE, reload |-> "none", calls |-> <<>>]

\* raise exc(why)
Raise(r, exc, why) == [r EXCEPT !.exc = exc, !.why = why]

\* an except clause took the exception
Caught(r) == [r EXCEPT !.exc = "", !.why = ""]

\* app_objects['ui'].messageBox(...): box is the text's fixed part, why the
\* error text it quotes, arg the name or input it quotes
MessageBox(r, box, why, arg) ==
    [r EXCEPT !.msgs = Append(@, [box |-> box, why |-> why, arg |-> arg])]

\* the operation op on the parameter called name, and the host's answer
Issued(r, op, name, unit, expression, answer) ==
    [r EXCEPT !.ops = Append(@, [op |-> op, name |-> name, unit |-> unit,
                                 expression |-> expression, answer |-> answer])]

\* the host's answer to the operation issued last
LastAnswer(r) == r.ops[Len(r.ops)].answer

\* user_parameter.deleteMe(): the parameter is deleted, or the host keeps it
\* (deleteMe reports it without raising), or the call raises
HostDeleteMe(r, name) ==
    { [Issued(r, "deleteMe", name, <<>>, <<>>, "deleted")
           EXCEPT !.store = Remove(r.store, ItemByName(r.store, name))],
      Issued(r, "deleteMe", name, <<>>, <<>>, "kept"),
      Raise(Issued(r, "deleteMe", name, <<>>, <<>>, "raised"), "RuntimeError", "host") }

\* design.userParameters.add(name, ValueInput.createByString(expression), unit,
\* comment): the new parameter joins the store, or the host returns None, or
\* the call raises; the host holds no two parameters of one name
HostAdd(r, name, expression, unit) ==
    { Issued(r, "add", name, unit, expression, "none"),
      Raise(Issued(r, "add", name, unit, expression, "raised"), "RuntimeError", "host") }
    \cup
    IF ItemByName(r.store, name) # 0 THEN {}
    ELSE { [Issued(r, "add", name, unit, expression, "added")
               EXCEPT !.store = Append(r.store, UserParameter(name, unit, expression))] }

\* user_parameter.expression = expression: the host takes it, or raises
HostSetExpression(r, name, expression) ==
    { [Issued(r, "expression", name, <<>>, expression, "set")
           EXCEPT !.store[ItemByName(r.store, name)].expression = expression],
      Raise(Issued(r, "expression", name, <<>>, expression, "raised"), "RuntimeError", "host") }

(***************************************************************************)
(* The parameter mutator                                                   *)
(***************************************************************************)

CannotConvertAssign ==
    "Cannot convert parameter from '{unit}' to no units. Only unitless parameters can be converted to specific units."
CannotConvertField ==
    "Cannot convert from '{unit}' to no units. Parameters with units must keep their unit type."
FailedToUpdate == "Failed to update parameter"
FailedToCreate == "Failed to create parameter"

\* expression = str(value), then " " + unit_type if there is a unit
AssignExpression(parameter_data) ==
    FloatStr(parameter_data.value)
        \o (IF parameter_data.unit_type # <<>>
            THEN <<" ">> \o parameter_data.unit_type ELSE <<>>)

\* mutant: the unit is left out of the expression
CreateExpression_NoUnit(param_data) == FloatStr(param_data.value)

\* expression = f"{param_data.value} {param_data.unit_type}"
CreateExpression(param_data) ==
    FloatStr(param_data.value) \o <<" ">> \o param_data.unit_type

\* the except clause of the assignment: it reads user_parameter.name and
\* user_parameter.unit to build its ValueError; when deleteMe has deleted
\* user_parameter that read may itself raise
WrapAssignError(r, deleted) ==
    IF deleted
    THEN {Raise(r, "ValueError", FailedToUpdate), Raise(r, "RuntimeError", "host")}
    ELSE {Raise(r, "ValueError", FailedToUpdate)}

\* mutant: no transition is taken for a gain of unit
IsUnitGain_Never(unit, unit_type) == FALSE

\* mutant: every transition is taken for a gain of unit
IsUnitGain_Always(unit, unit_type) == TRUE

\* the transition is one from no unit to a unit: delete and recreate
\* (not user_parameter.unit and parameter_data.unit_type)
IsUnitGain(unit, unit_type) == unit = <<>> /\ unit_type # <<>>

\* mutant: no conversion is refused
IsUnitLoss_Never(unit, unit_type) == FALSE

\* the conversion is one from a unit to no unit: refused
\* (user_parameter.unit and not parameter_data.unit_type)
IsUnitLoss(unit, unit_type) == unit # <<>> /\ unit_type = <<>>

\* _assign_parameter_value(user_parameter, parameter_data), user_parameter the
\* parameter called name: the runs it can end in, exc the exception it raises
assign_parameter_value(r, name, parameter_data) ==
    LET unit       == r.store[ItemByName(r.store, name)].unit
        expression == AssignExpression(parameter_data)
    IN  IF IsUnitLoss(unit, parameter_data.unit_type)
        THEN {Raise(r, "ValueError", CannotConvertAssign)}
        ELSE IF IsUnitGain(unit, parameter_data.unit_type)
        THEN UNION {
               IF d.exc # "" THEN WrapAssignError(Caught(d), FALSE)
               ELSE UNION { IF a.exc # ""
                            THEN WrapAssignError(Caught(a), LastAnswer(d) = "deleted")
                            ELSE {a}
                            : a \in HostAdd(d, name, expression, parameter_data.unit_type) }
               : d \in HostDeleteMe(r, name) }
        ELSE UNION { IF s.exc # "" THEN WrapAssignError(Caught(s), FALSE) ELSE {s}
                     : s \in HostSetExpression(r, name, expression) }

ValidationErrorBox == "Parameter validation error for input"
UnableToProcessBox == "Unable to process parameter modification for input"

\* the two except clauses of _handle_parameter_modification
ModificationExcept(r, command_value) ==
    IF r.exc = "" THEN r
    ELSE IF r.exc = "ValueError"
    THEN MessageBox(Caught(r), ValidationErrorBox, r.why, command_value)
    ELSE MessageBox(Caught(r), UnableToProcessBox, r.why, command_value)

\* _handle_parameter_modification(command_value)
handle_parameter_modification(r, command_value) ==
    LET param_data == parse_parameter_command(command_value)
        parsed     == [r EXCEPT !.res = param_data]
    IN  IF ~param_data.ok
        THEN {ModificationExcept(Raise(parsed, param_data.exc, param_data.msg), command_value)}
        ELSE IF ItemByName(r.store, param_data.name) # 0
        THEN { ModificationExcept(a, command_value)
               : a \in assign_parameter_value(parsed, param_data.name, param_data) }
        ELSE { ModificationExcept(
                   IF a.exc = "" /\ LastAnswer(a) = "none"
                   THEN Raise(a, "ValueError", FailedToCreate) ELSE a,
                   command_value)
               : a \in HostAdd(parsed, param_data.name, CreateExpression(param_data),
                               param_data.unit_type) }

del_ == <<"d", "e", "l", " ">>

\* param_name = command_value.split('del ')[1].strip()
DeletionName(command_value) == Strip(Split(command_value, del_)[2])

\* _handle_parameter_deletion(command_value)
handle_parameter_deletion(r, command_value) ==
    IF Len(Split(command_value, del_)) < 2
    THEN {MessageBox(r, "Unable to delete parameter", "list index out of range", <<>>)}
    ELSE
    LET param_name == DeletionName(command_value)
    IN  IF ItemByName(r.store, param_name) # 0
        THEN { IF d.exc # ""
               THEN MessageBox(Caught(d), "Unable to delete parameter", d.why, <<>>)
               ELSE d
               : d \in HostDeleteMe(r, param_name) }
        ELSE {MessageBox(r, "Parameter not found", "", param_name)}

\* command_value.find('=') > 1
IsModificationCommand(command_value) == Find(command_value, <<"=">>) > 1

\* command_value.find('del ') == 0
IsDeletionCommand(command_value) == Find(command_value, del_) = 0

\* process_command_input(inputs), command_value the command field's value
process_command_input(r, command_value) ==
    IF command_value = <<>> THEN {[r EXCEPT !.route = "empty"]}
    ELSE IF IsModificationCommand(command_value)
    THEN handle_parameter_modification([r EXCEPT !.route = "modification"], command_value)
    ELSE IF IsDeletionCommand(command_value)
    THEN handle_parameter_deletion([r EXCEPT !.route = "deletion"], command_value)
    ELSE {MessageBox([r EXCEPT !.route = "invalid"],
                     "Unable to evaluate expression", "", command_value)}

\* invalid_expressions.append((name, why))
Invalid(r, name, why) ==
    [r EXCEPT !.invalid = Append(@, [name |-> name, why |-> why])]

\* any(unit in field.value for unit in ALL_VALID_UNITS)
NamesAUnit(value) == \E unit \in ALL_VALID_UNITS : Contains(value, unit)

\* the body of the loop of process_parameter_field_updates for the parameter
\* called name; an exception that is no ValueError leaves the loop
FieldUpdate(r, name, fieldValues) ==
    IF name \notin DOMAIN fieldValues THEN {r}
    ELSE
    LET value   == fieldValues[name]
        unit    == r.store[ItemByName(r.store, name)].unit
        looked  == [r EXCEPT !.seen = Append(@, name)]
        parameter_data == parse_parameter_command(name \o <<"=">> \o value)
    IN  IF unit # <<>> /\ ~NamesAUnit(value)
        THEN {Invalid(looked, name, CannotConvertField)}
        ELSE IF ~parameter_data.ok
        THEN {Invalid(looked, name, parameter_data.msg)}
        ELSE { IF a.exc = "ValueError" THEN Invalid(Caught(a), name, a.why) ELSE a
               : a \in assign_parameter_value(looked, name, parameter_data) }

\* for user_parameter in design.userParameters, the collection read by index
\* as the loop goes: a parameter deleted and recreated moves to the end
RECURSIVE LoopLive(_, _, _)
LoopLive(r, i, fieldValues) ==
    IF r.exc # "" \/ i > Len(r.store) THEN {r}
    ELSE UNION { LoopLive(s, i + 1, fieldValues)
                 : s \in FieldUpdate(r, r.store[i].name, fieldValues) }

\* for user_parameter in design.userParameters, the collection read once
\* when the loop starts
RECURSIVE LoopSnapshot(_, _, _)
LoopSnapshot(r, names, fieldValues) ==
    IF r.exc # "" \/ names = <<>> THEN {r}
    ELSE UNION { LoopSnapshot(s, Tail(names), fieldValues)
                 : s \in FieldUpdate(r, Head(names), fieldValues) }

\* the names of the store, in the store's order
NamesOf(st) == [i \in 1..Len(st) |-> st[i].name]

\* the end of process_parameter_field_updates: the report of the invalid
\* expressions, or the outer except clause
FieldReport(r) ==
    IF r.exc # ""
    THEN MessageBox(Caught(r), "Unable to update parameters", r.why, <<>>)
    ELSE IF r.invalid # <<>>
    THEN MessageBox(r, "Invalid expressions found", "", <<>>)
    ELSE r

\* process_parameter_field_updates(inputs), fieldValues the value of the field
\* of each parameter that has one; the host's collection is read live or once
process_parameter_field_updates(r, fieldValues) ==
    { FieldReport(s)
      : s \in LoopLive(r, 1, fieldValues) \cup LoopSnapshot(r, NamesOf(r.store), fieldValues) }

(***************************************************************************)
(* What the user types, and what the host holds                            *)
(***************************************************************************)

\* the longest command typed character by character
MaxLen == 4

\* the characters such a command is typed from
RawAlphabet == {"w", "m", "z", "1", ".", "-", "=", " "}

RawStrings == UNION {[1..n -> RawAlphabet] : n \in 0..MaxLen}

\* the commands the documentation and the specification quote
Examples ==
    {<<"w","=","1","0","m","m">>, <<"w","=","1","0">>, <<"w","=","x","y","z">>,
     <<"w","=","1","0","z","z">>, <<"w","=","1","-","2">>, <<"w","=","1",".","2",".","3">>,
     <<"w","i","d","t","h","=","1","0","m","m">>, <<"s","i","d","e","s","=","6">>,
     <<"n","e","w","_","p","a","r","a","m"," ","="," ","1","0","m","m">>}

\* a command typed as  name = number unit, with optional blanks around the
\* name and around the value
TypedNames   == {<<"w">>, <<"a","b">>, <<"p","_","1">>, <<"a"," ","b">>}
TypedNumbers == {<<"1","0">>, <<"2",".","5">>, <<"-","1">>, <<".","5">>, <<"1",".">>,
                 <<"-","0">>, <<"0","0","7">>, <<"-",".","2","5">>}
TypedUnits   == ALL_VALID_UNITS \cup {<<>>, <<"z","z">>, <<"M","M">>}
Blanks       == {<<>>, <<" ">>}
Margins      == {<<>>, <<"\t"," ">>}

Shapes ==
    [kind : {"typed"}, lead : Margins, name : TypedNames, gap1 : Blanks,
     gap2 : Blanks, number : TypedNumbers, unit : TypedUnits, trail : Margins]

RawShape ==
    [kind |-> "raw", lead |-> <<>>, name |-> <<>>, gap1 |-> <<>>,
     gap2 |-> <<>>, number |-> <<>>, unit |-> <<>>, trail |-> <<>>]

\* a value typed with its digits, its letters and other characters in any order
ValueAlphabet == {"1", "0", "m", "*", "+", "/", "_", "=", " "}

ScatteredValues ==
    UNION {[1..n -> ValueAlphabet] : n \in 1..MaxLen}
    \cup {<<"m","m","1","0">>, <<"1"," ","0"," ","m"," ","m">>, <<"1","0","*","m","m">>,
          <<"m","1",".","5","m">>, <<"-","k","1","g">>}

\* the command  w=value  of such a value
ValueShape(value) ==
    [kind |-> "value", lead |-> <<>>, name |-> <<"w">>, gap1 |-> <<>>,
     gap2 |-> <<>>, number |-> value, unit |-> <<>>, trail |-> <<>>]

\* the text of a command typed as  name = number unit
Typed(sh) ==
    sh.lead \o sh.name \o sh.gap1 \o <<"=">> \o sh.gap2 \o sh.number \o sh.unit \o sh.trail

\* the text of a command typed as  del name
TypedDel(sh) == <<"d","e","l"," ">> \o sh.name \o sh.trail

\* the text of a typed command
Text(sh) == IF sh.kind = "del" THEN TypedDel(sh) ELSE Typed(sh)

\* the most parameters the host's store holds when a call begins
MaxParams == 2

mm == <<"m","m">>
kg == <<"k","g">>

\* the names and the units of the parameters the host holds
StoreNames == {<<"w">>, <<"x">>, <<"x","d","e","l">>}
StoreUnits == {<<>>, mm, kg}

\* the expression of a parameter that was made in the host's own dialog
HostExpression(unit) == <<"5">> \o (IF unit # <<>> THEN <<" ">> \o unit ELSE <<>>)

\* the stores the host can hold when a call begins: no two parameters of one name
Stores ==
    UNION { { st \in [1..n -> {UserParameter(name, unit, HostExpression(unit))
                               : name \in StoreNames, unit \in StoreUnits}]
              : \A i, j \in 1..n : i # j => st[i].name # st[j].name }
            : n \in 0..MaxParams }

\* the name = number unit commands given to the mutator
ModificationShapes ==
    [kind : {"typed"}, lead : Blanks, name : StoreNames, gap1 : Blanks,
     gap2 : {<<>>}, number : {<<"1","0">>, <<"2",".","5">>},
     unit : {<<>>, mm, kg, <<"z","z">>}, trail : {<<>>}]

\* the del name commands given to the mutator
DeletionShapes ==
    [kind : {"del"}, lead : {<<>>}, name : StoreNames, gap1 : {<<>>},
     gap2 : {<<>>}, number : {<<>>}, unit : {<<>>}, trail : {<<>>, <<" ">>, <<"\t">>}]

\* other texts of the command field
OtherCommands ==
    {<<>>, <<"w">>, <<"d","e","l">>, <<"d","e","l"," ">>, <<"=","5">>,
     <<"w","=">>, <<"r","e","l","o","a","d">>, <<"R","e","s","t","a","r","t"," ">>,
     <<"d","e","l"," ","x","=","1","0">>}

\* the texts of a parameter's edit field
FieldTexts ==
    {<<>>, <<"1","0">>, <<"1","0"," ","m","m">>, <<"2",".","5","k","g">>, <<"m","m">>}

\* no parameter has an edit field
NoFields == [name \in {} |-> <<>>]

\* the edit fields of some of the store's parameters, each with a text
FieldValues(st) ==
    UNION { [D -> FieldTexts] : D \in SUBSET {st[i].name : i \in 1..Len(st)} }

(***************************************************************************)
(* The parser alone: _parse_parameter_command applied to what is typed     *)
(***************************************************************************)

\* _validate_command_input was not called yet
NotValidated == [ret |-> TRUE, kind |-> "none"]

\* nothing was called yet
Blank ==
    /\ pre = <<>>
    /\ fields = NoFields
    /\ res = NoResult
    /\ ops = <<>>
    /\ msgs = <<>>
    /\ ret = "none"
    /\ invalid = <<>>
    /\ seen = <<>>
    /\ isValueError = FALSE
    /\ fieldErrors = NoFields
    /\ valid = NotValidated
    /\ isValidResult = TRUE
    /\ reload = "none"
    /\ calls = <<>>
    /\ raised = ""
    /\ hadUnit = {}
    /\ delTargets = {}
    /\ step = 0

\* the command is typed: character by character, or as name = number unit
InitParse ==
    /\ store = <<>>
    /\ call = "typed"
    /\ \/ cmd \in RawStrings \cup Examples /\ shape = RawShape
       \/ shape \in Shapes /\ cmd = Typed(shape)
       \/ \E value \in ScatteredValues :
             shape = ValueShape(value) /\ cmd = Typed(shape)
    /\ Blank

\* _parse_parameter_command(cmd)
Parse ==
    /\ call = "typed"
    /\ call' = "parse"
    /\ res' = parse_parameter_command(cmd)
    /\ UNCHANGED <<store, pre, cmd, shape, fields, ops, msgs, ret, invalid, seen,
                   isValueError, fieldErrors, valid, isValidResult, reload, calls, raised,
                   hadUnit, delTargets, step>>

NextParse == Parse

SpecParse == InitParse /\ [][NextParse]_vars

(***************************************************************************)
(* The mutator alone: each of its methods called once on a store of the    *)
(* host                                                                    *)
(***************************************************************************)

\* the names of the parameters of st that have a unit
WithUnit(st) == {st[i].name : i \in {k \in 1..Len(st) : st[k].unit # <<>>}}

\* the call named name, given command c (typed as sh) and fields f, ended as run r
Ended(name, c, sh, f, r) ==
    /\ call' = name
    /\ cmd' = c
    /\ shape' = sh
    /\ fields' = f
    /\ pre' = store
    /\ store' = r.store
    /\ res' = r.res
    /\ ops' = r.ops
    /\ msgs' = r.msgs
    /\ ret' = r.route
    /\ invalid' = r.invalid
    /\ seen' = r.seen
    /\ isValidResult' = r.isValidResult
    /\ reload' = r.reload
    /\ calls' = r.calls
    /\ raised' = r.exc
    /\ hadUnit' = hadUnit \cup WithUnit(store) \cup WithUnit(r.store)
    /\ delTargets' = delTargets \cup (IF sh.kind = "del" THEN {sh.name} ELSE {})
    /\ step' = step + 1
    /\ UNCHANGED <<isValueError, fieldErrors, valid>>

InitMutator ==
    /\ store \in Stores
    /\ call = "open"
    /\ cmd = <<>>
    /\ shape = RawShape
    /\ Blank

HandleParameterModification ==
    /\ call = "open"
    /\ \E sh \in ModificationShapes :
       \E r \in handle_parameter_modification(Run(store), Text(sh)) :
          Ended("_handle_parameter_modification", Text(sh), sh, NoFields, r)

HandleParameterDeletion ==
    /\ call = "open"
    /\ \E sh \in DeletionShapes :
       \E r \in handle_parameter_deletion(Run(store), Text(sh)) :
          Ended("_handle_parameter_deletion", Text(sh), sh, NoFields, r)

ProcessCommandInput ==
    /\ call = "open"
    /\ \/ \E sh \in ModificationShapes \cup DeletionShapes :
          \E r \in process_command_input(Run(store), Text(sh)) :
             Ended("process_command_input", Text(sh), sh, NoFields, r)
       \/ \E c \in OtherCommands :
          \E r \in process_command_input(Run(store), c) :
             Ended("process_command_input", c, RawShape, NoFields, r)

ProcessParameterFieldUpdates ==
    /\ call = "open"
    /\ \E f \in FieldValues(store) :
       \E r \in process_parameter_field_updates(Run(store), f) :
          Ended("process_parameter_field_updates", <<>>, RawShape, f, r)

NextMutator ==
    \/ HandleParameterModification
    \/ HandleParameterDeletion
    \/ ProcessCommandInput
    \/ ProcessParameterFieldUpdates

SpecMutator == InitMutator /\ [][NextMutator]_vars


(***************************************************************************)
(* The dialog's handlers: on_execute and on_preview                        *)
(***************************************************************************)

VALID_RELOAD_COMMANDS ==
    {<<"r","e","l","o","a","d">>, <<"r","e","s","t","a","r","t">>}

\* command_value.strip().lower() in ['reload', 'restart']
IsReloadCommand(command_value) == Lower(Strip(command_value)) \in VALID_RELOAD_COMMANDS

\* the method fn is called
Called(r, fn) == [r EXCEPT !.calls = Append(@, fn)]

\* _maybe_trigger_addin_reload(command_value): no reload command (reload
\* "no", returns False); or the add-in is stopped and run again (returns
\* True), or the host does not find the add-in, or the host raises (a box,
\* returns False)
maybe_trigger_addin_reload(r, command_value) ==
    IF ~IsReloadCommand(command_value) THEN {[r EXCEPT !.reload = "no"]}
    ELSE { [r EXCEPT !.reload = "reloaded"],
           MessageBox([r EXCEPT !.reload = "notfound"],
                      "Failed to reload add-in", "Add-in not found", <<>>),
           MessageBox([r EXCEPT !.reload = "raised"],
                      "Failed to reload add-in", "host", <<>>) }

\* the except clause of on_execute
ExecuteExcept(r, command_value) ==
    IF r.exc = "" THEN r
    ELSE [MessageBox(Caught(r), "Error in command execution when processing command input",
                     r.why, command_value)
             EXCEPT !.isValidResult = FALSE]

\* on_execute(command, inputs, args, input_values), command_value the value
\* of the command field and fieldValues the values of the parameters' fields
on_execute(r, command_value, fieldValues) ==
    IF command_value # <<>>
    THEN UNION {
           IF t.reload = "reloaded" THEN {t}
           ELSE UNION {
                  IF p.exc # "" THEN {ExecuteExcept(p, command_value)}
                  ELSE IF ~IsModificationCommand(command_value)
                  THEN { ExecuteExcept(f, command_value)
                         : f \in process_parameter_field_updates(
                                   Called(p, "process_parameter_field_updates"),
                                   fieldValues) }
                  ELSE {p}
                  : p \in process_command_input(Called(t, "process_command_input"),
                                                command_value) }
           : t \in maybe_trigger_addin_reload(Called(r, "_maybe_trigger_addin_reload"),
                                              command_value) }
    ELSE process_parameter_field_updates(Called(r, "process_parameter_field_updates"),
                                         fieldValues)

\* the texts of a parameter's edit field when the dialog is executed: the
\* expression on_create put there, or what the user typed over it
EditedTexts == {<<"1","0">>, <<"1","0"," ","m","m">>}

\* the edit fields on_create made, one for each parameter of the store, as
\* they stand when the dialog is executed
DialogFields(st) ==
    { f \in [{st[i].name : i \in 1..Len(st)} -> EditedTexts \cup {st[i].expression : i \in 1..Len(st)}]
      : \A i \in 1..Len(st) : f[st[i].name] \in EditedTexts \cup {st[i].expression} }

(***************************************************************************)
(* One execution of the dialog on a store of the host                      *)
(***************************************************************************)

InitExecute ==
    /\ store \in Stores
    /\ call = "open"
    /\ cmd = <<>>
    /\ shape = RawShape
    /\ Blank

\* the dialog is executed with a typed command in the command field
ExecuteTyped ==
    /\ call = "open"
    /\ \E sh \in ModificationShapes \cup DeletionShapes :
       \E f \in DialogFields(store) :
       \E r \in on_execute(Run(store), Text(sh), f) :
          Ended("on_execute", Text(sh), sh, f, r)

\* the dialog is executed with another text, or none, in the command field
ExecuteOther ==
    /\ call = "open"
    /\ \E c \in OtherCommands :
       \E f \in DialogFields(store) :
       \E r \in on_execute(Run(store), c, f) :
          Ended("on_execute", c, RawShape, f, r)

NextExecute == ExecuteTyped \/ ExecuteOther

SpecExecute == InitExecute /\ [][NextExecute]_vars

(***************************************************************************)
(* A session: the dialog executed again and again (on_destroy opens it     *)
(* again after each execution, and on_create fills its fields from the     *)
(* store)                                                                  *)
(***************************************************************************)

\* the most executions of a session
MaxSteps == 2

SessionNames == {<<"x">>, <<"x","d","e","l">>}

\* the stores a session begins on
SessionStores ==
    { st \in Stores : \A i \in 1..Len(st) :
                         st[i].name \in SessionNames /\ st[i].unit \in {<<>>, mm} }

\* the commands typed in a session
SessionShapes ==
    { sh \in ModificationShapes :
         /\ sh.name \in SessionNames /\ sh.lead = <<>> /\ sh.gap1 = <<" ">>
         /\ sh.number = <<"1","0">> /\ sh.unit \in {<<>>, mm, kg} }
    \cup { sh \in DeletionShapes : sh.name \in SessionNames /\ sh.trail \in {<<>>, <<" ">>} }

\* the fields as on_create made them: each holds its parameter's expression
Unedited(st) ==
    CHOOSE f \in DialogFields(st) : \A i \in 1..Len(st) : f[st[i].name] = st[i].expression

InitSession ==
    /\ store \in SessionStores
    /\ call = "open"
    /\ cmd = <<>>
    /\ shape = RawShape
    /\ Blank

\* a command is typed and the dialog is executed
ExecuteCommand ==
    /\ step < MaxSteps
    /\ \E sh \in SessionShapes :
       \E r \in on_execute(Run(store), Text(sh), Unedited(store)) :
          Ended("on_execute", Text(sh), sh, Unedited(store), r)

\* fields are edited and the dialog is executed with no command
ExecuteFields ==
    /\ step < MaxSteps
    /\ \E f \in DialogFields(store) :
       \E r \in on_execute(Run(store), <<>>, f) :
          Ended("on_execute", <<>>, RawShape, f, r)

NextSession == ExecuteCommand \/ ExecuteFields

SpecSession == InitSession /\ [][NextSession]_vars

(***************************************************************************)
(* The preview: _validate_command_input, _validate_parameter_fields and    *)
(* on_preview.  isValueError is the flag of the command field; the host's  *)
(* units manager judges an expression valid or not, or raises.             *)
(***************************************************************************)

\* what _validate_command_input returns (ret), the branch that returned it
\* (kind) and the flag of the command field afterwards
Validated(returned, kind, flag) == [ret |-> returned, kind |-> kind, isValueError |-> flag]

\* command_value.startswith('del ') and bool(command_value[4:].strip())
IsDeletionInput(command_value) ==
    StartsWith(command_value, del_) /\ Strip(From(command_value, 4)) # <<>>

\* _validate_command_input(command_input), value the field's value and flag
\* its isValueError; the bare except takes what parsing or the host raises
validate_command_input(flag, st, value) ==
    IF value = <<>> THEN {Validated(TRUE, "empty", flag)}
    ELSE
    LET command_value == Strip(value)
        param_data    == parse_parameter_command(command_value)
        existing      == ItemByName(st, param_data.name)
    IN  IF Lower(command_value) \in VALID_RELOAD_COMMANDS
        THEN {Validated(TRUE, "reload", flag)}
        ELSE IF IsDeletionInput(command_value)
        THEN {Validated(TRUE, "deletion", flag)}
        ELSE IF Contains(command_value, <<"=">>)
        THEN IF ~param_data.ok
             THEN {Validated(FALSE, "raised", TRUE)}
             ELSE IF existing # 0 /\ st[existing].unit # <<>> /\ param_data.unit_type = <<>>
             THEN {Validated(FALSE, "conversion", TRUE)}
             ELSE { Validated(TRUE, "parameter", FALSE),
                    Validated(FALSE, "expression", TRUE),
                    Validated(FALSE, "raised", TRUE) }
        ELSE {Validated(FALSE, "rejected", TRUE)}

\* what _validate_parameter_fields returns, the fields' flags afterwards, and
\* the exception the host raised
FieldsValidated(returned, flags, exc) == [ret |-> returned, fieldErrors |-> flags, exc |-> exc]

\* the loop of _validate_parameter_fields from the i-th parameter on
RECURSIVE ValidateFields(_, _, _, _, _)
ValidateFields(st, i, fieldValues, flags, has_errors) ==
    IF i > Len(st) THEN {FieldsValidated(~has_errors, flags, "")}
    ELSE IF st[i].name \notin DOMAIN fieldValues
    THEN ValidateFields(st, i + 1, fieldValues, flags, has_errors)
    ELSE {FieldsValidated(FALSE, flags, "RuntimeError")}
         \cup UNION { ValidateFields(st, i + 1, fieldValues,
                                     (st[i].name :> ~is_valid) @@ flags,
                                     has_errors \/ ~is_valid)
                      : is_valid \in BOOLEAN }

\* _validate_parameter_fields(parameter_fields_group)
validate_parameter_fields(flags, st, fieldValues) ==
    ValidateFields(st, 1, fieldValues, flags, FALSE)

\* on_preview(command, inputs, args, input_values): the flags, what the
\* validation of the command returned, args.isValidResult and the exception
\* that leaves the handler
on_preview(flag, flags, st, value, fieldValues) ==
    UNION {
      IF ~v.ret
      THEN {[isValueError |-> v.isValueError, fieldErrors |-> flags,
             valid |-> [ret |-> v.ret, kind |-> v.kind],
             isValidResult |-> FALSE, exc |-> ""]}
      ELSE {[isValueError |-> v.isValueError, fieldErrors |-> p.fieldErrors,
             valid |-> [ret |-> v.ret, kind |-> v.kind],
             isValidResult |-> p.ret, exc |-> p.exc]
            : p \in validate_parameter_fields(flags, st, fieldValues)}
      : v \in validate_command_input(flag, st, value) }

\* the texts typed in the command field while the dialog is open
PreviewCommands ==
    {<<>>, <<" "," ">>, <<"w">>, <<"r","e","l","o","a","d">>,
     <<"R","e","s","t","a","r","t"," ">>,
     <<"d","e","l">>, <<"d","e","l"," ">>, <<"d","e","l"," ","x">>,
     <<" ","d","e","l"," ","x">>, <<"d","e","l"," ","x","d","e","l"," ">>,
     <<"d","e","l"," ","x","=","1","0">>,
     <<"x","=","1","0">>, <<" ","x","=","1","0">>, <<"x"," ","=","1","0","m","m">>,
     <<"x","d","e","l","=","1","0","k","g">>, <<"x","=","1","0","z","z">>,
     <<"w","=">>, <<"=","5">>}

(***************************************************************************)
(* The dialog while it is open: the command field is edited, each edit is  *)
(* previewed, and an accepted command is executed                          *)
(***************************************************************************)

InitPreview ==
    /\ store \in SessionStores
    /\ call = "open"
    /\ cmd = <<>>
    /\ shape = RawShape
    /\ Blank

\* the command field is edited to c and on_preview runs
OnPreview ==
    /\ call \in {"open", "on_preview"}
    /\ \E c \in PreviewCommands :
       \E p \in on_preview(isValueError, fieldErrors, store, c, Unedited(store)) :
          /\ call' = "on_preview"
          /\ cmd' = c
          /\ fields' = Unedited(store)
          /\ isValueError' = p.isValueError
          /\ fieldErrors' = p.fieldErrors
          /\ valid' = p.valid
          /\ isValidResult' = p.isValidResult
          /\ raised' = p.exc
          /\ UNCHANGED <<store, pre, shape, res, ops, msgs, ret, invalid, seen,
                         reload, calls, hadUnit, delTargets, step>>

\* the last preview left the dialog valid, and its command is given to
\* process_command_input
ExecutePreviewed ==
    /\ call = "on_preview"
    /\ valid.ret /\ isValidResult
    /\ \E r \in process_command_input(Run(store), cmd) :
          Ended("process_command_input", cmd, RawShape, fields, r)

NextPreview == OnPreview \/ ExecutePreviewed

SpecPreview == InitPreview /\ [][NextPreview]_vars

(***************************************************************************)
(* What the claims speak of, stated on the typed text itself               *)
(***************************************************************************)

\* the position of the first '=' of s (0 when s has none)
FirstEquals(s) ==
    IF \A i \in 1..Len(s) : s[i] # "=" THEN 0
    ELSE CHOOSE i \in 1..Len(s) : s[i] = "=" /\ \A j \in 1..(i - 1) : s[j] # "="

IsBlank(s) == \A i \in 1..Len(s) : s[i] \in Whitespace

NameText(s)  == SubSeq(s, 1, FirstEquals(s) - 1)
ValueText(s) == SubSeq(s, FirstEquals(s) + 1, Len(s))

IsNumberChar(c) == c \in {"0","1","2","3","4","5","6","7","8","9",".","-"}
IsLetter(c)     == c \in Letters

\* a decimal number: [-] digits [. digits] with a digit somewhere
IsDecimalNumber(s) ==
    \E i \in 0..1, j \in 0..Len(s), d \in 0..1 :
        /\ i + j + d <= Len(s)
        /\ (i = 1 => s[1] = "-")
        /\ \A p \in (i + 1)..(i + j) : s[p] \in Digits
        /\ (d = 1 => s[i + j + 1] = ".")
        /\ \A p \in (i + j + d + 1)..Len(s) : s[p] \in Digits
        /\ Len(s) - i - d >= 1

\* the command is malformed: no '=', an empty name, an empty value, or a
\* numeric part that is empty or no number
Malformed(s) ==
    \/ FirstEquals(s) = 0
    \/ IsBlank(NameText(s))
    \/ IsBlank(ValueText(s))
    \/ ~IsDecimalNumber(SelectSeq(ValueText(s), IsNumberChar))

\* a well-formed command whose letters are no unit of the taxonomy
HasUnknownUnit(s) ==
    /\ ~Malformed(s)
    /\ SelectSeq(ValueText(s), IsLetter) # <<>>
    /\ SelectSeq(ValueText(s), IsLetter) \notin ALL_VALID_UNITS

FormatMessages ==
    {"Invalid parameter format. Expected 'name=value'",
     "Parameter name and value cannot be empty",
     "Parameter must have a numeric value",
     "Invalid numeric value"}

AlphabeticUnits == {u \in ALL_VALID_UNITS : \A i \in 1..Len(u) : u[i] \in Letters}

Ten == [neg |-> FALSE, num |-> 10, den |-> 1]

(***************************************************************************)
(* The claims                                                              *)
(***************************************************************************)

\* C1: for a non-empty name N and a numeric literal V, parsing "N=V" returns
\* {name N, value float(V), unit ""} and parsing "N=VU", U an alphabetic unit
\* of the taxonomy, returns {name N, value float(V), unit U}; blanks around N
\* and around the value change nothing.  "w=10mm" is {w, 10.0, mm} and "w=10"
\* is {w, 10.0, ""}.
C1_ParseReturnsRecord ==
    /\ (call = "parse" /\ shape.kind = "typed"
            /\ shape.unit \in AlphabeticUnits \cup {<<>>}) =>
          /\ cmd = Typed(shape)
          /\ res = ParameterData(shape.name, Float(shape.number), shape.unit, <<>>)
    /\ (call = "parse" /\ cmd = <<"w","=","1","0","m","m">>) =>
          res = ParameterData(<<"w">>, Ten, <<"m","m">>, <<>>)
    /\ (call = "parse" /\ cmd = <<"w","=","1","0">>) =>
          res = ParameterData(<<"w">>, Ten, <<>>, <<>>)
    /\ (call = "parse" /\ shape.kind = "typed" /\ shape.number = <<"-",".","2","5">>
            /\ shape.unit = <<"k","g">>) =>
          res.value = [neg |-> TRUE, num |-> 25, den |-> 100]

\* a command with blanks around the name and the value, and a unit, was parsed
C1_Witness ==
    /\ call = "parse" /\ shape.kind = "typed"
    /\ shape.lead # <<>> /\ shape.gap1 # <<>> /\ shape.gap2 # <<>> /\ shape.trail # <<>>
    /\ shape.number = <<"2",".","5">> /\ shape.unit = <<"m","m","H","g">>
    /\ res.ok /\ res.value = [neg |-> FALSE, num |-> 25, den |-> 10]

\* C2: for every symbol U of ALL_VALID_UNITS, parsing "N=10U" succeeds and
\* yields unit U with value 10.0.
C2_EveryTaxonomyUnitParses ==
    (call = "parse" /\ shape.kind = "typed" /\ shape.number = <<"1","0">>
        /\ shape.unit \in ALL_VALID_UNITS) =>
            res.ok /\ res.unit_type = shape.unit /\ res.value = Ten

\* C3: a command with no '=', with an empty name before the first '=', with
\* an empty value after it, or whose numeric part is empty or no valid number
\* fails with a format error and returns no record.
C3_MalformedFails ==
    (call = "parse" /\ Malformed(cmd)) =>
        ~res.ok /\ res.exc = "ValueError" /\ res.msg \in FormatMessages

\* "w=1-2" was parsed and refused for its number
C3_Witness ==
    /\ call = "parse" /\ cmd = <<"w","=","1","-","2">>
    /\ ~res.ok /\ res.msg = "Invalid numeric value"

\* C4 as claimed: a valid number followed by letters that are no unit fails
\* with an error whose kind differs from the kind of the format error a
\* malformed command ("w=xyz") raises.
C4_UnknownUnitDistinctKind ==
    (call = "parse" /\ HasUnknownUnit(cmd)) =>
        ~res.ok /\ res.exc # parse_parameter_command(<<"w","=","x","y","z">>).exc

\* C4, amended: such a command fails with a ValueError, the exception type of
\* the format errors too, whose message "Invalid unit type" is none of theirs.
C4_UnknownUnitFails ==
    (call = "parse" /\ HasUnknownUnit(cmd)) =>
        /\ ~res.ok /\ res.exc = "ValueError"
        /\ res.msg = "Invalid unit type" /\ res.msg \notin FormatMessages

\* "w=10zz" was parsed and refused for its unit
C4_Witness ==
    /\ call = "parse" /\ cmd = <<"w","=","1","0","z","z">>
    /\ ~res.ok /\ res.msg = "Invalid unit type"

(***************************************************************************)
(* The claims about the mutator                                            *)
(***************************************************************************)

\* _handle_parameter_modification ran, called directly or by process_command_input
Modified ==
    \/ call = "_handle_parameter_modification"
    \/ call = "process_command_input" /\ ret = "modification"

\* the place in the store of before of the parameter the parsed record names
Target == ItemByName(pre, res.name)

\* the parameters of st called name
Named(st, name) == {k \in 1..Len(st) : st[k].name = name}

\* every parameter of the store of before but the i-th is in the store, as it was
OthersKept(i) ==
    \A j \in 1..Len(pre) : j # i => \E k \in 1..Len(store) : store[k] = pre[j]

\* the text of a value and a unit, the unit after a blank
ValueAndUnit(value, unit) == FloatStr(value) \o <<" ">> \o unit

\* the text of a value, and of its unit after a blank if it has one
ValueThenUnit(value, unit) ==
    IF unit = <<>> THEN FloatStr(value) ELSE ValueAndUnit(value, unit)

\* C5: a unitless record applied to an existing parameter that has a unit is
\* refused with an invalid-conversion error and the parameter stays as it was,
\* on the command path and on the field path.
C5_UnitToUnitlessRefused ==
    /\ (Modified /\ res.ok /\ res.unit_type = <<>> /\ Target # 0
            /\ pre[Target].unit # <<>>) =>
          /\ store = pre
          /\ ops = <<>>
          /\ msgs = <<[box |-> ValidationErrorBox, why |-> CannotConvertAssign, arg |-> cmd]>>
    /\ call = "process_parameter_field_updates" =>
          \A n \in 1..Len(seen) :
            LET name   == seen[n]
                before == pre[ItemByName(pre, name)]
                record == parse_parameter_command(name \o <<"=">> \o fields[name])
            IN  (ItemByName(pre, name) # 0 /\ before.unit # <<>>
                    /\ record.ok /\ record.unit_type = <<>>) =>
                  /\ \E k \in 1..Len(store) : store[k] = before
                  /\ \E k \in 1..Len(invalid) :
                        invalid[k] = [name |-> name, why |-> CannotConvertField]
                  /\ \A k \in 1..Len(ops) : ops[k].name # name

\* the field of a parameter in mm held "10", beside a unitless parameter
\* whose field gave it a unit
C5_Witness ==
    /\ call = "process_parameter_field_updates"
    /\ \E n \in 1..Len(seen) :
          /\ pre[ItemByName(pre, seen[n])].unit = mm
          /\ fields[seen[n]] = <<"1","0">>
          /\ \E k \in 1..Len(invalid) :
                invalid[k] = [name |-> seen[n], why |-> CannotConvertField]
    /\ \E k \in 1..Len(ops) : ops[k].answer = "added"

\* C6: a delete command for a name that is not in the store fails with a
\* not-found error and leaves the store unchanged.
C6_DeleteMissingNotFound ==
    (call \in {"_handle_parameter_deletion", "process_command_input"}
        /\ shape.kind = "del" /\ Named(pre, shape.name) = {}) =>
          /\ store = pre
          /\ msgs = <<[box |-> "Parameter not found", why |-> "", arg |-> shape.name]>>

\* C7: process_command_input routes every name=value[unit] command with a
\* non-empty name, a one-character name too, to the modification and every
\* del name command to the deletion.
C7_CommandsRouted ==
    call = "process_command_input" =>
        /\ shape.kind = "typed" => ret = "modification"
        /\ shape.kind = "del" => ret = "deletion"

\* C8 as claimed: when the parsed record names a parameter that is not in the
\* store, afterwards the store holds a parameter with the record's name, its
\* unit and the expression of its value and unit, and every other parameter
\* is as it was.
C8_AbsentIsCreated ==
    (Modified /\ res.ok /\ Target = 0) =>
        /\ \E k \in 1..Len(store) :
              store[k] = UserParameter(res.name, res.unit_type,
                                       ValueAndUnit(res.value, res.unit_type))
        /\ OthersKept(0)

\* C8, amended: the modification issues one add, of the record's name, unit
\* and expression; when the host accepts it the store is the store of before
\* and the new parameter, and when the host returns None or raises the store
\* is as before and one error box is shown.
C8_AbsentIsCreatedIfHostAccepts ==
    (Modified /\ res.ok /\ Target = 0) =>
        /\ Len(ops) = 1
        /\ ops[1].op = "add" /\ ops[1].name = res.name /\ ops[1].unit = res.unit_type
        /\ ops[1].expression = ValueAndUnit(res.value, res.unit_type)
        /\ ops[1].answer = "added" =>
              /\ store = Append(pre, UserParameter(res.name, res.unit_type,
                                                   ValueAndUnit(res.value, res.unit_type)))
              /\ msgs = <<>>
        /\ ops[1].answer # "added" => store = pre /\ Len(msgs) = 1

\* "xdel = 2.5kg" made the parameter xdel beside another parameter
C8_Witness ==
    /\ Modified /\ res.ok /\ Target = 0 /\ Len(pre) = 1
    /\ res.name = <<"x","d","e","l">>
    /\ store = Append(pre, UserParameter(<<"x","d","e","l">>, kg, <<"2",".","5"," ","k","g">>))

\* the delete and the add of the last call both succeeded
Recreated ==
    /\ Len(ops) = 2
    /\ ops[1].op = "deleteMe" /\ ops[1].answer = "deleted"
    /\ ops[2].op = "add" /\ ops[2].answer = "added"

\* C9: a record with a unit applied to an existing unitless parameter deletes
\* the parameter and then adds it again under its name; after a successful
\* step the store holds exactly one parameter of that name, with the record's
\* unit and value, and all other parameters are as they were.
C9_UnitGainRecreates ==
    (Modified /\ res.ok /\ res.unit_type # <<>> /\ Target # 0
        /\ pre[Target].unit = <<>>) =>
          /\ Len(ops) >= 1
          /\ ops[1].op = "deleteMe" /\ ops[1].name = res.name
          /\ ops[1].answer # "raised" =>
                /\ Len(ops) = 2
                /\ ops[2].op = "add" /\ ops[2].name = res.name
                /\ ops[2].unit = res.unit_type
                /\ ops[2].expression = ValueAndUnit(res.value, res.unit_type)
          /\ Recreated =>
                /\ Cardinality(Named(store, res.name)) = 1
                /\ \A k \in Named(store, res.name) :
                      /\ store[k].unit = res.unit_type
                      /\ store[k].expression = ValueAndUnit(res.value, res.unit_type)
                /\ OthersKept(Target)
                /\ Len(store) = Len(pre)
                /\ msgs = <<>>

\* the unitless w, first of two parameters, became w in mm
C9_Witness ==
    /\ Modified /\ res.ok /\ Target = 1 /\ Len(pre) = 2
    /\ pre[1] = UserParameter(<<"w">>, <<>>, <<"5">>)
    /\ Recreated
    /\ store[2] = UserParameter(<<"w">>, mm, <<"1","0",".","0"," ","m","m">>)
    /\ store[1] = pre[2]

\* C10: a record applied to an existing parameter of the record's unit (the
\* same unit, or both unitless) only sets the parameter's expression: no
\* delete and no add is issued, and the name and the unit stay.
C10_SameUnitInPlace ==
    (Modified /\ res.ok /\ Target # 0 /\ pre[Target].unit = res.unit_type) =>
        /\ Len(ops) = 1
        /\ ops[1].op = "expression" /\ ops[1].name = res.name
        /\ ops[1].expression = ValueThenUnit(res.value, res.unit_type)
        /\ Len(store) = Len(pre)
        /\ \A j \in 1..Len(pre) :
              /\ store[j].name = pre[j].name
              /\ store[j].unit = pre[j].unit
              /\ j # Target => store[j] = pre[j]
        /\ ops[1].answer = "set" =>
              store[Target].expression = ValueThenUnit(res.value, res.unit_type)
        /\ ops[1].answer # "set" => store = pre

\* the unitless x took the expression 2.5, and x in kg the expression 10.0 kg
C10_Witness ==
    /\ Modified /\ res.ok /\ Target # 0 /\ pre[Target].unit = res.unit_type
    /\ ops[1].answer = "set"
    /\ \/ res.unit_type = <<>> /\ store[Target].expression = <<"2",".","5">>
       \/ res.unit_type = kg /\ store[Target].expression = <<"1","0",".","0"," ","k","g">>

\* C11: a record with a unit applied to an existing parameter of another unit
\* (mm to kg) deletes and recreates the parameter, it does not set the
\* expression in place; after a successful step the parameter has the
\* record's unit.
C11_UnitChangeRecreates ==
    (Modified /\ res.ok /\ res.unit_type # <<>> /\ Target # 0
        /\ pre[Target].unit # <<>> /\ pre[Target].unit # res.unit_type) =>
          /\ \E k \in 1..Len(ops) : ops[k].op = "deleteMe" /\ ops[k].name = res.name
          /\ \A k \in 1..Len(ops) : ops[k].op # "expression"
          /\ (\A k \in 1..Len(ops) : ops[k].answer \in {"deleted", "added", "set"}) =>
                \A k \in Named(store, res.name) : store[k].unit = res.unit_type

\* a box of the last call has the fixed text box
Shown(box) == \E k \in 1..Len(msgs) : msgs[k].box = box

\* the boxes that report an error of the command
CommandBoxes ==
    {ValidationErrorBox, UnableToProcessBox, "Parameter not found",
     "Unable to delete parameter", "Unable to evaluate expression",
     "Unable to process command", "Error in command execution when processing command input"}

\* the boxes that report an error of the field updates
FieldBoxes ==
    {"Invalid expressions found", "Unable to update parameters",
     "Error in command execution when processing command input"}

\* C12: every error met while on_execute processes a command (parse failure,
\* unknown unit, refused conversion, missing delete target, an add or an
\* update the host fails) or a field update is reported in a message box,
\* and no exception leaves on_execute.
C12_ErrorsReported ==
    call = "on_execute" =>
        /\ raised = ""
        /\ (ret = "modification" /\ ~res.ok) => \E b \in CommandBoxes : Shown(b)
        /\ (ret = "modification" /\ res.ok /\ Target # 0
                /\ pre[Target].unit # <<>> /\ res.unit_type = <<>>) =>
              \E b \in CommandBoxes : Shown(b)
        /\ (shape.kind = "del" /\ Named(pre, shape.name) = {}) =>
              \E b \in CommandBoxes : Shown(b)
        /\ (\E k \in 1..Len(ops) : ops[k].answer \in {"none", "raised"}) =>
              \E b \in CommandBoxes \cup FieldBoxes : Shown(b)
        /\ invalid # <<>> => \E b \in FieldBoxes : Shown(b)

\* C13: the command "del N", with any blanks after it, deletes only the
\* parameter called N, the trimmed text after "del ", when the store holds
\* it; no parameter of another name is deleted, also when N holds the
\* letters "del".
C13_DeleteOnlyNamed ==
    (call \in {"_handle_parameter_deletion", "process_command_input"}
        /\ shape.kind = "del") =>
          /\ \A k \in 1..Len(ops) : ops[k].op = "deleteMe" /\ ops[k].name = shape.name
          /\ OthersKept(ItemByName(pre, shape.name))
          /\ Named(pre, shape.name) # {} =>
                /\ Len(ops) = 1
                /\ ops[1].answer = "deleted" => Named(store, shape.name) = {}

\* C14: over any sequence of commands and field updates, a parameter that
\* once had a unit and that no del command was typed for has a unit in every
\* later state that holds it.
C14_UnitNeverLost ==
    \A P \in hadUnit \ delTargets :
        \A k \in Named(store, P) : store[k].unit # <<>>

\* the calls of an on_execute that processes the command and then the fields
CommandThenFields ==
    <<"_maybe_trigger_addin_reload", "process_command_input",
      "process_parameter_field_updates">>

\* C15: within one on_execute, a reload command whose reload succeeds issues
\* no store operation; a name=value command is applied and no field update is
\* applied; in every other case (del command, unrecognised command, empty
\* command) the field updates are applied, after the command was processed.
C15_ExecuteOrder ==
    call = "on_execute" =>
        /\ reload = "reloaded" =>
              /\ ops = <<>> /\ store = pre /\ seen = <<>>
              /\ calls = <<"_maybe_trigger_addin_reload">>
        /\ shape.kind = "typed" =>
              /\ ret = "modification"
              /\ calls = <<"_maybe_trigger_addin_reload", "process_command_input">>
              /\ seen = <<>> /\ invalid = <<>>
        /\ shape.kind = "del" => calls = CommandThenFields
        /\ (shape.kind = "raw" /\ cmd # <<>> /\ ~Contains(cmd, <<"=">>)
                /\ reload # "reloaded") =>
              /\ calls = CommandThenFields
              /\ ret = IF IsDeletionCommand(cmd) THEN "deletion" ELSE "invalid"
        /\ cmd = <<>> => calls = <<"process_parameter_field_updates">>

\* C16: the parser separates the value by character class, whatever the
\* position: the numeric part is the value's digits, '.' and '-' in order,
\* the unit its letters in order; blanks and every other character ('*',
\* '+', '/', '_', '=') are dropped and cause no failure.  "w=mm10",
\* "w=1 0 m m" and "w=10*mm" parse to the record of "w=10mm".
C16_SeparatedByClass ==
    (call = "parse" /\ shape.kind = "value") =>
        LET digits  == SelectSeq(shape.number, IsNumberChar)
            letters == SelectSeq(shape.number, IsLetter)
        IN  /\ cmd = <<"w","=">> \o shape.number
            /\ (IsDecimalNumber(digits) /\ letters \in AlphabeticUnits \cup {<<>>}) =>
                  res = ParameterData(<<"w">>, Float(digits), letters, <<>>)
            /\ ~IsDecimalNumber(digits) => ~res.ok /\ res.msg \in FormatMessages
            /\ (IsDecimalNumber(digits) /\ letters \notin AlphabeticUnits \cup {<<>>}) =>
                  ~res.ok /\ res.msg = "Invalid unit type"
            /\ shape.number \in {<<"m","m","1","0">>, <<"1"," ","0"," ","m"," ","m">>,
                                 <<"1","0","*","m","m">>} =>
                  res = ParameterData(<<"w">>, Ten, mm, <<>>)

\* "w=10*mm" was parsed to the record of "w=10mm"
C16_Witness ==
    /\ call = "parse" /\ shape.kind = "value"
    /\ shape.number = <<"1","0","*","m","m">>
    /\ res = ParameterData(<<"w">>, Ten, mm, <<>>)

\* C17: the preview validator and the executor classify a command string the
\* same way: what _validate_command_input accepts as a deletion
\* process_command_input runs as a deletion, what it accepts as a parameter
\* command is run as a modification, and no accepted string ends in the
\* executor's "Unable to evaluate expression".
C17_ValidatorAgreesWithExecutor ==
    (call = "process_command_input" /\ valid.ret) =>
        /\ valid.kind = "deletion" => ret = "deletion"
        /\ valid.kind = "parameter" => ret = "modification"
        /\ ~Shown("Unable to evaluate expression")

\* C18: after any sequence of previews the command field's isValueError is
\* true exactly when the last _validate_command_input returned False; a
\* valid reload, del or empty input after an invalid one leaves it cleared.
C18_FlagTracksValidation ==
    call = "on_preview" => (isValueError <=> ~valid.ret)

\* C19: a parameter modification that ends in an error leaves the store as
\* it was before; when the unitless-to-unit transition has deleted the
\* parameter and the host refuses the add, the parameter is still in the
\* store afterwards.
C19_ErrorLeavesStore ==
    (Modified /\ msgs # <<>>) => store = pre

====
